---- MODULE Spec2Model ----
(***************************************************************************)
(* llama2-webui: the chat front-end (app_4bit_ggml.py) and the engine      *)
(* adapter (llama2_wrapper/model.py).                                      *)
(*                                                                         *)
(* Text is a sequence of characters, each character a one-element string;  *)
(* WIDE stands for one CJK character, whose UTF-8 encoding is the three    *)
(* bytes E4 B8 AD.  Bytes are strings too: an ASCII byte is its character. *)
(*                                                                         *)
(* One browser session is modelled, its event chains one at a time. The    *)
(* app sets LLAMA_CPP = True (line 43); the adapter serves both backends   *)
(* by config["llama_cpp"], and both are modelled.                          *)
(***************************************************************************)
EXTENDS Integers, Sequences, FiniteSets, TLC

\* ---------------------------------------------------------------- bounds
MaxTokens == 2      \* tokens the engine produces for one request, at most
MaxRequests == 1    \* requests (submit, click, retry) in one behaviour
MaxIncrements == 1  \* increments the accelerated backend's thread puts
LongLen == 1400     \* characters of the long user message
MaxTurns == 2       \* turns of a history handed to the prompt builder

\* ------------------------------------------------------ program constants
MAX_MAX_NEW_TOKENS == 2048
DEFAULT_MAX_NEW_TOKENS == 1024
MAX_INPUT_TOKEN_LENGTH == 4000
PROMPT_TAIL == 2048

\* ------------------------------------------------------------------ text
WIDE == "Zh"
WS == {" ", "\n"}

RECURSIVE LStrip(_)
LStrip(s) == IF s # <<>> /\ Head(s) \in WS THEN LStrip(Tail(s)) ELSE s

RECURSIVE RStrip(_)
RStrip(s) ==
  IF s # <<>> /\ s[Len(s)] \in WS THEN RStrip(SubSeq(s, 1, Len(s) - 1)) ELSE s

\* str.strip()
Strip(s) == RStrip(LStrip(s))

\* s[-n:]
Tail_n(s, n) == IF Len(s) <= n THEN s ELSE SubSeq(s, Len(s) - n + 1, Len(s))

\* sub in s
Contains(s, sub) ==
  \E i \in 1..(Len(s) - Len(sub) + 1) : SubSeq(s, i, i + Len(sub) - 1) = sub

\* s.split(sub)[0]: the text before the first occurrence of sub, s when none
SplitFirst(s, sub) ==
  IF Contains(s, sub)
  THEN LET i == CHOOSE k \in 1..(Len(s) - Len(sub) + 1) :
                  /\ SubSeq(s, k, k + Len(sub) - 1) = sub
                  /\ \A j \in 1..(k - 1) : SubSeq(s, j, j + Len(sub) - 1) # sub
       IN SubSeq(s, 1, i - 1)
  ELSE s

\* len(bytes(s, "utf-8"))
Utf8ByteLen(s) == Len(s) + 2 * Cardinality({i \in 1..Len(s) : s[i] = WIDE})

\* str(b, encoding="utf-8"): the characters of the bytes b, or the failure
\* value when b is not well-formed UTF-8 (a lead byte without its
\* continuation bytes, or a continuation byte without its lead byte)
DecodeError == <<"UnicodeDecodeError">>
RECURSIVE Utf8Decode(_)
Utf8Decode(b) ==
  IF b = <<>> THEN <<>>
  ELSE IF Head(b) = "E4"
       THEN IF Len(b) >= 3 /\ b[2] = "B8" /\ b[3] = "AD"
            THEN LET rest == Utf8Decode(SubSeq(b, 4, Len(b)))
                 IN IF rest = DecodeError THEN DecodeError ELSE <<WIDE>> \o rest
            ELSE DecodeError
       ELSE IF Head(b) \in {"B8", "AD"}
            THEN DecodeError
            ELSE LET rest == Utf8Decode(Tail(b))
                 IN IF rest = DecodeError THEN DecodeError ELSE <<Head(b)>> \o rest

\* ----------------------------------------------------------- the prompt
HUMAN_OPEN == <<"<", "s", ">", "H", "u", "m", "a", "n", ":", " ">>
TURN_SEP == <<"\n", "<", "/", "s", ">", "<", "s", ">",
              "A", "s", "s", "i", "s", "t", "a", "n", "t", ":", " ">>
TURN_CLOSE == <<"\n", "<", "/", "s", ">">>
SYSTEM_OPEN == <<"<", "s", ">", "S", "y", "s", "t", "e", "m", ":", " ">>

\* one history turn, model.py line 188
TurnBlock(turn) ==
  HUMAN_OPEN \o Strip(turn[1]) \o TURN_SEP \o Strip(turn[2]) \o TURN_CLOSE

\* HistoryBlocks with the turns taken newest first
RECURSIVE HistoryBlocksNewestFirst(_)
HistoryBlocksNewestFirst(h) ==
  IF h = <<>> THEN <<>>
  ELSE HistoryBlocksNewestFirst(Tail(h)) \o TurnBlock(Head(h))

\* the loop of lines 187-188
RECURSIVE HistoryBlocks(_)
HistoryBlocks(h) ==
  IF h = <<>> THEN <<>> ELSE TurnBlock(Head(h)) \o HistoryBlocks(Tail(h))

\* the open block of the new message, model.py line 190
OpenBlock(message) == HUMAN_OPEN \o Strip(message) \o TURN_SEP

\* get_prompt with the cut of line 191 made after the system block is put in
\* front
get_promptCutLast(message, chat_history, system_prompt) ==
  LET turns == HistoryBlocks(chat_history) \o OpenBlock(message)
  IN IF Len(system_prompt) > 0
     THEN Tail_n(SYSTEM_OPEN \o Strip(system_prompt) \o TURN_CLOSE \o turns,
                 PROMPT_TAIL)
     ELSE Tail_n(turns, PROMPT_TAIL)

\* model.py lines 183-195
get_prompt(message, chat_history, system_prompt) ==
  LET turns == Tail_n(HistoryBlocks(chat_history) \o OpenBlock(message), PROMPT_TAIL)
  IN IF Len(system_prompt) > 0
     THEN SYSTEM_OPEN \o Strip(system_prompt) \o TURN_CLOSE \o turns
     ELSE turns

\* the engine's tokenizer, a byte-level one: one token per UTF-8 byte
get_token_length(prompt) == Utf8ByteLen(prompt)

get_input_token_length(message, chat_history, system_prompt) ==
  get_token_length(get_prompt(message, chat_history, system_prompt))

\* ------------------------------------------------- the engine's tokens
\* what the engine's token generator can yield: the literal the adapter
\* compares with at model.py line 108, the id token_eos() returns, and text
\* tokens (their bytes below). "E4" is the first byte of a WIDE character,
\* "B8AD" its other two bytes.
EOS_LITERAL == "</s>"
token_eos == "EOS"
HUMAN_MARKER == <<"H", "u", "m", "a", "n", ":">>
Vocab == {EOS_LITERAL, token_eos, "aHum", "an:", "E4", "B8AD"}

TokenBytes(t) ==
  CASE t = "aHum" -> <<"a", "H", "u", "m">>
    [] t = "an:" -> <<"a", "n", ":">>
    [] t = "E4" -> <<"E4">>
    [] t = "B8AD" -> <<"B8", "AD">>
    [] OTHER -> <<>>

\* model.detokenize(tokens): the bytes of the tokens, concatenated
RECURSIVE detokenize(_)
detokenize(tokens) ==
  IF tokens = <<>> THEN <<>> ELSE TokenBytes(Head(tokens)) \o detokenize(Tail(tokens))

\* the increments the accelerated backend's streamer can deliver
Increments == {<<>>, <<"H", "u", "m">>}
END_SIGNAL == <<"stop_signal">>

\* ----------------------------------- LLAMA2_WRAPPER.generate, a generator
\* pc: "start" not yet run, "loop" suspended at the yield of line 130 or 155,
\* "brk" suspended at a yield that a break follows, "end" returned or raised.
NewGenerator ==
  [pc |-> "start", answer_message |-> <<>>, new_tokens |-> <<>>, outputs |-> <<>>]

NoGenerator ==
  [pc |-> "end", answer_message |-> <<>>, new_tokens |-> <<>>, outputs |-> <<>>]

\* TryDecode with "=" for "+=" at line 113
TryDecodeAssign(g, token) ==
  LET toks == Append(g.new_tokens, token)
      text == Utf8Decode(detokenize(toks))
  IN IF text = DecodeError
     THEN [g EXCEPT !.new_tokens = toks]
     ELSE [g EXCEPT !.answer_message = text, !.new_tokens = <<>>]

\* TryDecode with the failing token dropped
TryDecodeDrop(g, token) ==
  LET toks == Append(g.new_tokens, token)
      text == Utf8Decode(detokenize(toks))
  IN IF text = DecodeError
     THEN g
     ELSE [g EXCEPT !.answer_message = g.answer_message \o text, !.new_tokens = <<>>]

\* the try block, lines 109-116: on any failure the token stays in new_tokens
\* and answer_message is as it was
TryDecode(g, token) ==
  LET toks == Append(g.new_tokens, token)
      text == Utf8Decode(detokenize(toks))
  IN IF text = DecodeError
     THEN [g EXCEPT !.new_tokens = toks]
     ELSE [g EXCEPT !.answer_message = g.answer_message \o text, !.new_tokens = <<>>]

\* Truncate with the split forgotten
TruncateNot(answer) == answer

\* the truncation of line 122
Truncate(answer) == SplitFirst(answer, HUMAN_MARKER)

\* LocalIter with "continue" for "pass" at line 116
LocalIterContinue(g, token) ==
  IF token = EOS_LITERAL
  THEN [g |-> [g EXCEPT !.pc = "brk"], yielded |-> TRUE, out |-> g.answer_message,
        truncated |-> FALSE, pre |-> g.answer_message]
  ELSE LET d == TryDecode(g, token)
       IN IF d.new_tokens # <<>>
          THEN [g |-> [d EXCEPT !.pc = "loop"], yielded |-> FALSE,
                out |-> d.answer_message, truncated |-> FALSE,
                pre |-> d.answer_message]
          ELSE IF Contains(d.answer_message, HUMAN_MARKER)
          THEN [g |-> [d EXCEPT !.pc = "brk",
                                !.answer_message = Truncate(d.answer_message)],
                yielded |-> TRUE, out |-> Truncate(d.answer_message),
                truncated |-> TRUE, pre |-> d.answer_message]
          ELSE IF token = token_eos
               THEN [g |-> [d EXCEPT !.pc = "brk"], yielded |-> TRUE,
                     out |-> d.answer_message, truncated |-> FALSE,
                     pre |-> d.answer_message]
               ELSE [g |-> [d EXCEPT !.pc = "loop"], yielded |-> TRUE,
                     out |-> d.answer_message, truncated |-> FALSE,
                     pre |-> d.answer_message]

\* LocalIter without the test of lines 126-128
LocalIterNoEos(g, token) ==
  IF token = EOS_LITERAL
  THEN [g |-> [g EXCEPT !.pc = "brk"], yielded |-> TRUE, out |-> g.answer_message,
        truncated |-> FALSE, pre |-> g.answer_message]
  ELSE LET d == TryDecode(g, token)
       IN IF Contains(d.answer_message, HUMAN_MARKER)
          THEN [g |-> [d EXCEPT !.pc = "brk",
                                !.answer_message = Truncate(d.answer_message)],
                yielded |-> TRUE, out |-> Truncate(d.answer_message),
                truncated |-> TRUE, pre |-> d.answer_message]
          ELSE [g |-> [d EXCEPT !.pc = "loop"], yielded |-> TRUE,
                out |-> d.answer_message, truncated |-> FALSE,
                pre |-> d.answer_message]

\* one iteration of the for loop of lines 107-130 on one token:
\* the generator after it, whether it yielded, what it yielded
LocalIter(g, token) ==
  IF token = EOS_LITERAL
  THEN [g |-> [g EXCEPT !.pc = "brk"], yielded |-> TRUE, out |-> g.answer_message,
        truncated |-> FALSE, pre |-> g.answer_message]
  ELSE LET d == TryDecode(g, token)
       IN IF Contains(d.answer_message, HUMAN_MARKER)
          THEN [g |-> [d EXCEPT !.pc = "brk",
                                !.answer_message = Truncate(d.answer_message)],
                yielded |-> TRUE, out |-> Truncate(d.answer_message),
                truncated |-> TRUE, pre |-> d.answer_message]
          ELSE IF token = token_eos
               THEN [g |-> [d EXCEPT !.pc = "brk"], yielded |-> TRUE,
                     out |-> d.answer_message, truncated |-> FALSE,
                     pre |-> d.answer_message]
               ELSE [g |-> [d EXCEPT !.pc = "loop"], yielded |-> TRUE,
                     out |-> d.answer_message, truncated |-> FALSE,
                     pre |-> d.answer_message]

\* one next() on the local backend's generator, the engine's token generator
\* yielding toks from here on: runs the loop until a yield or the end.
\* out is <<chunk>> or <<>> (StopIteration); used counts the tokens pulled.
RECURSIVE LocalRun(_, _, _)
LocalRun(g, toks, used) ==
  IF g.pc \in {"brk", "end"} \/ toks = <<>>
  THEN [g |-> [g EXCEPT !.pc = "end"], out |-> <<>>, used |-> used,
        truncated |-> FALSE, pre |-> g.answer_message]
  ELSE LET r == LocalIter(g, Head(toks))
       IN IF r.yielded
          THEN [g |-> r.g, out |-> <<r.out>>, used |-> used + 1,
                truncated |-> r.truncated, pre |-> r.pre]
          ELSE LocalRun(r.g, Tail(toks), used + 1)

LocalNext(g, toks) == LocalRun(g, toks, 0)

RECURSIVE Join(_)
Join(texts) == IF texts = <<>> THEN <<>> ELSE Head(texts) \o Join(Tail(texts))

\* one next() on the accelerated backend's generator with item at the head
\* of the streamer's queue, lines 153-155
StreamerNext(g, item) ==
  IF g.pc = "end" \/ item = END_SIGNAL
  THEN [g |-> [g EXCEPT !.pc = "end"], out |-> <<>>, used |-> 0,
        truncated |-> FALSE, pre |-> Join(g.outputs)]
  ELSE LET o == Append(g.outputs, item)
       IN [g |-> [g EXCEPT !.pc = "loop", !.outputs = o], out |-> <<Join(o)>>,
           used |-> 0, truncated |-> FALSE, pre |-> Join(o)]

\* --------------------------------------------------------------- inputs
Hi == <<"H", "i">>
LongText == [i \in 1..LongLen |-> WIDE]
Messages == {Hi, LongText}
BeNice == <<"B", "e">>
SystemPrompts == {<<>>, BeNice}
\* what a client can send for max_new_tokens: the server does not hold it to
\* the slider's range (lines 163-169)
MaxNewTokensChoices == {0, 1, DEFAULT_MAX_NEW_TOKENS, MAX_MAX_NEW_TOKENS + 1}

\* inputs of the prompt builder called by itself
Padded == <<" ", "H", "i", "\n">>
Blank == <<" ">>
PromptMessages == {<<>>, Hi, Padded, LongText}
PromptTurns == {<<Hi, Padded>>, <<Padded, <<>>>>, <<LongText, LongText>>}
PromptHistories == UNION {[1..k -> PromptTurns] : k \in 0..MaxTurns}
PromptSystems == {<<>>, BeNice, Blank}

\* the engine's next tokens as one pull can see them, given the tokens the
\* request has pulled so far; <<>> is the token generator ending
Streams(pulled) ==
  UNION {[1..k -> Vocab] : k \in 0..(MaxTokens - pulled)}

\* ---------------------------------------------------------------- state
VARIABLES
  llama_cpp,       \* config["llama_cpp"]: the local backend is selected
  textbox,         \* the message box
  saved_input,     \* gr.State
  chatbot,         \* the transcript, a sequence of <<user, assistant>>
  system_prompt,   \* the system prompt box
  max_new_tokens,  \* the slider's value as the server receives it
  chain,           \* the event chain in progress: "none", "submit", "click",
                   \* "retry", "undo"
  step,            \* the chain's next handler
  req,             \* the arguments generate() was called with
  gen,             \* the adapter's generator of the request
  streamer,        \* the TextIteratorStreamer's queue of the request
  threads,         \* requests whose background model.generate still runs
  puts,            \* increments the request's thread has put
  n_requests,      \* requests started
  budget,          \* requests the behaviour may still start
  before,          \* the transcript when the chain in progress began
  tokens,          \* the tokens the request pulled from the engine
  acct             \* what the request did so far

vars == <<llama_cpp, textbox, saved_input, chatbot, system_prompt, max_new_tokens,
          chain, step, req, gen, streamer, threads, puts, n_requests, budget,
          before, tokens, acct>>

ui == <<textbox, saved_input, chatbot, system_prompt, max_new_tokens>>
engine == <<req, gen, streamer, threads, puts, tokens>>

NoRequest ==
  [message |-> <<>>, history |-> <<>>, history_with_input |-> <<>>,
   max_new_tokens |-> 0]

FreshAcct ==
  [checked |-> FALSE,       \* check_input_token_length ran
   gate_len |-> 0,          \* the length it computed
   gate_prompt |-> <<>>,    \* the prompt it measured
   engine_prompt |-> <<>>,  \* the prompt run() built for the engine
   error |-> "",            \* the exception that ended the request
   length_errors |-> 0,     \* gr.Error raised
   started |-> FALSE,       \* generate() began to run
   transcripts |-> 0,       \* values generate() yielded
   chunks |-> 0,            \* values the adapter's generator yielded
   tokenize |-> 0,          \* tokenizer calls
   engine_generate |-> 0,   \* model.generate calls
   decode_steps |-> 0,      \* tokens pulled from the engine's generator
   pulls |-> 0,             \* next() calls on the adapter's generator
   last_chunk |-> <<>>,     \* the chunk yielded last
   truncated |-> FALSE,     \* it was yielded by the truncation of line 122
   pre |-> <<>>,            \* answer_message before that truncation
   abandoned |-> FALSE]     \* the caller stopped pulling

Start(requests) ==
  /\ budget = requests
  /\ llama_cpp \in BOOLEAN
  /\ textbox = <<>>
  /\ saved_input = <<>>
  /\ chatbot = <<>>
  /\ system_prompt = BeNice
  /\ max_new_tokens = DEFAULT_MAX_NEW_TOKENS
  /\ chain = "none"
  /\ step = "idle"
  /\ req = NoRequest
  /\ gen = NoGenerator
  /\ streamer = <<>>
  /\ threads = {}
  /\ puts = 0
  /\ n_requests = 0
  /\ before = <<>>
  /\ tokens = <<>>
  /\ acct = FreshAcct

Init == Start(MaxRequests)

\* behaviours with one request more, for what a request leaves to the next
InitMore == Start(MaxRequests + 1)

Idle == chain = "none"

\* ------------------------------------------------------------- handlers
\* a chain begins: nothing of the previous request is left
Begin(c, s) ==
  /\ chain' = c
  /\ step' = s
  /\ before' = chatbot
  /\ acct' = FreshAcct
  /\ tokens' = <<>>
  /\ req' = NoRequest
  /\ gen' = NoGenerator
  /\ streamer' = <<>>
  /\ puts' = 0

\* the chain is over
Finish == chain' = "none" /\ step' = "idle"

\* what the client sends with an event: the message box holds what the
\* server last put there or what the user typed over it
Typed == Messages \cup {textbox}

\* clear_and_save_textbox, lines 76-77
clear_and_save_textbox(message) == [textbox |-> <<>>, saved_input |-> message]

\* first of the chain of textbox.submit (lines 203-208); the sliders and the
\* system prompt box are as the user left them
TextboxSubmit(m, n, p) ==
  /\ Idle
  /\ budget > 0
  /\ budget' = budget - 1
  /\ textbox' = clear_and_save_textbox(m).textbox
  /\ saved_input' = clear_and_save_textbox(m).saved_input
  /\ max_new_tokens' = n
  /\ system_prompt' = p
  /\ n_requests' = n_requests + 1
  /\ Begin("submit", "display_input")
  /\ UNCHANGED <<llama_cpp, chatbot, threads>>

\* first of the chain of submit_button.click (lines 236-242)
SubmitButtonClick(m, n, p) ==
  /\ Idle
  /\ budget > 0
  /\ budget' = budget - 1
  /\ textbox' = clear_and_save_textbox(m).textbox
  /\ saved_input' = clear_and_save_textbox(m).saved_input
  /\ max_new_tokens' = n
  /\ system_prompt' = p
  /\ n_requests' = n_requests + 1
  /\ Begin("click", "display_input")
  /\ UNCHANGED <<llama_cpp, chatbot, threads>>

\* history.pop() under try/except IndexError, lines 87-92
delete_prev_fn(history) ==
  IF history = <<>>
  THEN [history |-> <<>>, message |-> <<>>]
  ELSE [history |-> SubSeq(history, 1, Len(history) - 1),
        message |-> history[Len(history)][1]]

\* delete_prev_fn, first of the chain of retry_button.click (lines 272-277)
RetryClick(n, p) ==
  /\ Idle
  /\ budget > 0
  /\ budget' = budget - 1
  /\ chatbot' = delete_prev_fn(chatbot).history
  /\ saved_input' = delete_prev_fn(chatbot).message
  /\ max_new_tokens' = n
  /\ system_prompt' = p
  /\ n_requests' = n_requests + 1
  /\ Begin("retry", "display_input")
  /\ UNCHANGED <<llama_cpp, textbox, threads>>

\* delete_prev_fn, first of the chain of undo_button.click (lines 299-304)
UndoClick ==
  /\ Idle
  /\ chatbot' = delete_prev_fn(chatbot).history
  /\ saved_input' = delete_prev_fn(chatbot).message
  /\ Begin("undo", "echo")
  /\ UNCHANGED <<llama_cpp, textbox, system_prompt, max_new_tokens, threads,
                 n_requests, budget>>

\* lambda x: x into the textbox, lines 305-311
UndoEcho ==
  /\ chain = "undo" /\ step = "echo"
  /\ textbox' = saved_input
  /\ Finish
  /\ UNCHANGED <<llama_cpp, saved_input, chatbot, system_prompt, max_new_tokens,
                 n_requests, budget, before, acct>>
  /\ UNCHANGED engine

\* lines 313-318
ClearClick ==
  /\ Idle
  /\ chatbot' = <<>>
  /\ saved_input' = <<>>
  /\ Begin("none", "idle")
  /\ UNCHANGED <<llama_cpp, textbox, system_prompt, max_new_tokens, threads,
                 n_requests, budget>>

\* history.append((message, "")), lines 80-84
display_input(message, history) == Append(history, <<message, <<>>>>)

\* the chain's step after display_input: the retry chain goes straight to
\* generate (lines 278-285), the other two to the length check
AfterDisplay(c) == IF c = "retry" THEN "generate" ELSE "check"

DisplayInput ==
  /\ chain \in {"submit", "click", "retry"} /\ step = "display_input"
  /\ chatbot' = display_input(saved_input, chatbot)
  /\ step' = AfterDisplay(chain)
  /\ UNCHANGED <<llama_cpp, textbox, saved_input, system_prompt, max_new_tokens,
                 chain, n_requests, budget, before, acct>>
  /\ UNCHANGED engine

\* check_input_token_length, lines 127-136; generate is chained by .success
CheckInputTokenLength ==
  /\ step = "check"
  /\ LET n == get_input_token_length(saved_input, chatbot, system_prompt)
         a == [acct EXCEPT !.checked = TRUE, !.gate_len = n,
                           !.gate_prompt =
                              get_prompt(saved_input, chatbot, system_prompt),
                           !.tokenize = acct.tokenize + 1]
     IN IF n > MAX_INPUT_TOKEN_LENGTH
        THEN /\ acct' = [a EXCEPT !.error = "gr.Error",
                                  !.length_errors = acct.length_errors + 1]
             /\ Finish
        ELSE /\ acct' = a
             /\ step' = "generate"
             /\ chain' = chain
  /\ UNCHANGED <<llama_cpp, n_requests, budget, before>>
  /\ UNCHANGED ui
  /\ UNCHANGED engine

\* ------------------------------------------- generate, app lines 95-117
\* Valid with the test of line 104 left out
ValidAlways(n) == TRUE

\* the test of line 104
Valid(n) == ~(n > MAX_MAX_NEW_TOKENS)

\* ButLast without the slice of line 107
ButLastKeep(h) == h

\* history_with_input[:-1], line 107
ButLast(h) == IF h = <<>> THEN <<>> ELSE SubSeq(h, 1, Len(h) - 1)

\* Slice with history_with_input.pop() for the slice of line 107
SlicePop(h) == [history |-> ButLast(h), history_with_input |-> ButLast(h)]

\* line 107: history, and the list the caller passed as the statement
\* leaves it
Slice(h) == [history |-> ButLast(h), history_with_input |-> h]

\* the arguments of generate once line 107 has run
Request ==
  [message |-> saved_input, history |-> Slice(chatbot).history,
   history_with_input |-> Slice(chatbot).history_with_input,
   max_new_tokens |-> max_new_tokens]

\* the prompt run() builds for the engine, model.py line 167, called at app
\* lines 108-110
RunPrompt(r) == get_prompt(r.message, r.history, system_prompt)

\* history + [(message, response)], lines 113 and 117
Relay(r, response) == Append(r.history, <<r.message, response>>)

\* FirstYield without the except clause of lines 114-115
FirstYieldNothing(r, out) ==
  IF out = <<>> THEN <<>> ELSE <<Append(r.history, <<r.message, out[1]>>)>>

\* lines 111-115: what generate yields for the first next(generator), out
\* being <<first_response>> or <<>> (StopIteration)
FirstYield(r, out) ==
  IF out = <<>> THEN <<Relay(r, <<>>)>> ELSE <<Relay(r, out[1])>>

\* the account after a next() on the adapter's generator that returned r
Pulled(a, r) ==
  LET b == [a EXCEPT !.pulls = a.pulls + 1,
                     !.decode_steps = a.decode_steps + r.used]
  IN IF r.out = <<>>
     THEN b
     ELSE [b EXCEPT !.chunks = a.chunks + 1, !.last_chunk = r.out[1],
                    !.truncated = r.truncated, !.pre = r.pre]

\* the account after generate yielded a transcript
Yielded(a) == [a EXCEPT !.transcripts = a.transcripts + 1]

\* line 105: raise ValueError, line 107 not reached
GenerateInvalid ==
  /\ step = "generate"
  /\ ~Valid(max_new_tokens)
  /\ req' = [Request EXCEPT !.history_with_input = chatbot]
  /\ acct' = [acct EXCEPT !.started = TRUE, !.error = "ValueError"]
  /\ Finish
  /\ UNCHANGED <<llama_cpp, gen, streamer, threads, puts, tokens, n_requests, budget,
                 before>>
  /\ UNCHANGED ui

\* generate up to its first yield on the local backend: lines 104-115 with
\* model.py lines 96-130 run by next(generator)
GenerateFirstLocal(toks) ==
  /\ step = "generate"
  /\ llama_cpp
  /\ Valid(max_new_tokens)
  /\ LET r == LocalNext(NewGenerator, toks)
         a == [acct EXCEPT !.started = TRUE, !.tokenize = acct.tokenize + 1,
                           !.engine_prompt = RunPrompt(Request),
                           !.engine_generate = acct.engine_generate + 1]
         ys == FirstYield(Request, r.out)
     IN /\ req' = Request
        /\ gen' = r.g
        /\ tokens' = SubSeq(toks, 1, r.used)
        /\ IF ys = <<>>
           THEN /\ chatbot' = chatbot
                /\ acct' = Pulled(a, r)
                /\ Finish
           ELSE /\ chatbot' = ys[1]
                /\ acct' = Yielded(Pulled(a, r))
                /\ step' = "stream"
                /\ chain' = chain
  /\ UNCHANGED <<llama_cpp, textbox, saved_input, system_prompt, max_new_tokens,
                 streamer, threads, puts, n_requests, budget, before>>

\* the for loop of lines 116-117 on the local backend
GenerateNextLocal(toks) ==
  /\ step = "stream"
  /\ llama_cpp
  /\ gen.pc # "end"
  /\ LET r == LocalNext(gen, toks)
     IN /\ gen' = r.g
        /\ tokens' = tokens \o SubSeq(toks, 1, r.used)
        /\ IF r.out = <<>>
           THEN /\ Finish
                /\ chatbot' = chatbot
                /\ acct' = Pulled(acct, r)
           ELSE /\ chatbot' = Relay(req, r.out[1])
                /\ acct' = Yielded(Pulled(acct, r))
                /\ UNCHANGED <<chain, step>>
  /\ UNCHANGED <<llama_cpp, textbox, saved_input, system_prompt, max_new_tokens,
                 req, streamer, threads, puts, n_requests, budget, before>>

\* the for loop of lines 116-117 finds the generator exhausted
GenerateReturn ==
  /\ step = "stream"
  /\ gen.pc = "end"
  /\ Finish
  /\ UNCHANGED <<llama_cpp, n_requests, budget, before, acct>>
  /\ UNCHANGED ui
  /\ UNCHANGED engine

\* generate on the accelerated backend up to the first wait on the streamer:
\* lines 104-112 with model.py lines 134-153; the thread is started
GenerateStartRuntime ==
  /\ step = "generate"
  /\ ~llama_cpp
  /\ Valid(max_new_tokens)
  /\ req' = Request
  /\ gen' = [NewGenerator EXCEPT !.pc = "loop"]
  /\ threads' = threads \cup {n_requests}
  /\ acct' = [acct EXCEPT !.started = TRUE, !.tokenize = acct.tokenize + 1,
                          !.engine_prompt = RunPrompt(Request),
                          !.engine_generate = acct.engine_generate + 1]
  /\ step' = "first"
  /\ UNCHANGED <<llama_cpp, chain, streamer, puts, tokens, n_requests, budget, before>>
  /\ UNCHANGED ui

Streaming == step \in {"first", "stream"}

\* the request's background model.generate puts an increment, one for a new
\* token at most, of which it makes max_new_tokens at most (line 142)
ThreadPut(text) ==
  /\ Streaming
  /\ n_requests \in threads
  /\ puts < MaxIncrements
  /\ puts < req.max_new_tokens
  /\ streamer' = Append(streamer, text)
  /\ puts' = puts + 1
  /\ UNCHANGED <<llama_cpp, chain, step, req, gen, threads, tokens, n_requests, budget,
                 before, acct>>
  /\ UNCHANGED ui

\* a background model.generate ends; the streamer it feeds gets the end signal
ThreadEnd(id) ==
  /\ id \in threads
  /\ threads' = threads \ {id}
  /\ streamer' = IF id = n_requests /\ Streaming
                 THEN Append(streamer, END_SIGNAL)
                 ELSE streamer
  /\ UNCHANGED <<llama_cpp, chain, step, req, gen, puts, tokens, n_requests, budget,
                 before, acct>>
  /\ UNCHANGED ui

\* next() on the accelerated backend's generator gets the streamer's next item
StreamerDeliver ==
  /\ Streaming
  /\ ~llama_cpp
  /\ gen.pc # "end"
  /\ streamer # <<>>
  /\ LET r == StreamerNext(gen, Head(streamer))
     IN /\ gen' = r.g
        /\ streamer' = Tail(streamer)
        /\ LET ys == IF step = "first" THEN FirstYield(req, r.out)
                      ELSE IF r.out = <<>> THEN <<>> ELSE <<Relay(req, r.out[1])>>
           IN IF ys = <<>>
              THEN /\ chatbot' = chatbot
                   /\ acct' = Pulled(acct, r)
                   /\ Finish
              ELSE /\ chatbot' = ys[1]
                   /\ acct' = Yielded(Pulled(acct, r))
                   /\ step' = "stream"
                   /\ chain' = chain
  /\ UNCHANGED <<llama_cpp, textbox, saved_input, system_prompt, max_new_tokens,
                 req, threads, puts, tokens, n_requests, budget, before>>

\* the streamer's queue stays empty for the timeout of line 137: queue.Empty
\* leaves the generator and generate; the thread is left running
StreamerTimeout ==
  /\ Streaming
  /\ ~llama_cpp
  /\ gen.pc # "end"
  /\ streamer = <<>>
  /\ gen' = [gen EXCEPT !.pc = "end"]
  /\ acct' = [acct EXCEPT !.pulls = acct.pulls + 1, !.error = "Empty"]
  /\ Finish
  /\ UNCHANGED <<llama_cpp, req, streamer, threads, puts, tokens, n_requests, budget,
                 before>>
  /\ UNCHANGED ui

\* the caller stops pulling generate
Abandon ==
  /\ Streaming
  /\ acct' = [acct EXCEPT !.abandoned = TRUE]
  /\ Finish
  /\ UNCHANGED <<llama_cpp, n_requests, budget, before>>
  /\ UNCHANGED ui
  /\ UNCHANGED engine

Next ==
  \/ \E m \in Typed, n \in MaxNewTokensChoices, p \in SystemPrompts :
        TextboxSubmit(m, n, p)
  \/ \E m \in Typed, n \in MaxNewTokensChoices, p \in SystemPrompts :
        SubmitButtonClick(m, n, p)
  \/ \E n \in MaxNewTokensChoices, p \in SystemPrompts : RetryClick(n, p)
  \/ UndoClick
  \/ UndoEcho
  \/ ClearClick
  \/ DisplayInput
  \/ CheckInputTokenLength
  \/ GenerateInvalid
  \/ \E toks \in Streams(0) : GenerateFirstLocal(toks)
  \/ \E toks \in Streams(acct.decode_steps) : GenerateNextLocal(toks)
  \/ GenerateReturn
  \/ GenerateStartRuntime
  \/ \E text \in Increments : ThreadPut(text)
  \/ \E id \in threads : ThreadEnd(id)
  \/ StreamerDeliver
  \/ StreamerTimeout
  \/ Abandon

Spec == Init /\ [][Next]_vars

SpecMore == InitMore /\ [][Next]_vars

\* ------------------------------------ the prompt builder by itself
\* get_prompt and get_input_token_length called with any message, history
\* and system prompt, as the adapter's callers may (model.py lines 80-85, 167)
InitPrompt ==
  /\ saved_input \in PromptMessages
  /\ chatbot \in PromptHistories
  /\ system_prompt \in PromptSystems
  /\ chain = "core"
  /\ step = "args"
  /\ budget = 0
  /\ llama_cpp = TRUE
  /\ textbox = <<>>
  /\ max_new_tokens = DEFAULT_MAX_NEW_TOKENS
  /\ req = NoRequest
  /\ gen = NoGenerator
  /\ streamer = <<>>
  /\ threads = {}
  /\ puts = 0
  /\ n_requests = 0
  /\ before = chatbot
  /\ tokens = <<>>
  /\ acct = FreshAcct

\* prompt = get_prompt(message, chat_history, system_prompt), line 167
RunGetPrompt ==
  /\ chain = "core" /\ step = "args"
  /\ acct' = [acct EXCEPT
       !.engine_prompt = get_prompt(saved_input, chatbot, system_prompt)]
  /\ step' = "prompt"
  /\ UNCHANGED <<llama_cpp, chain, n_requests, budget, before>>
  /\ UNCHANGED ui
  /\ UNCHANGED engine

\* get_input_token_length, lines 80-85
InputTokenLength ==
  /\ chain = "core" /\ step = "prompt"
  /\ acct' = [acct EXCEPT
       !.gate_prompt = get_prompt(saved_input, chatbot, system_prompt),
       !.gate_len = get_input_token_length(saved_input, chatbot, system_prompt),
       !.tokenize = acct.tokenize + 1]
  /\ step' = "length"
  /\ UNCHANGED <<llama_cpp, chain, n_requests, budget, before>>
  /\ UNCHANGED ui
  /\ UNCHANGED engine

NextPrompt == RunGetPrompt \/ InputTokenLength

SpecPrompt == InitPrompt /\ [][NextPrompt]_vars

\* =================================================================== claims

\* C1 (as claimed): on every path that starts a generation the length check
\* has run before the engine's generation is invoked, and a request whose
\* computed input token length exceeds MAX_INPUT_TOKEN_LENGTH yields no chunk
\* and exactly one length error. Stated for the backend the app configures
\* (LLAMA_CPP = True, app line 43).
C1_GatedGeneration ==
  /\ (llama_cpp /\ acct.engine_generate > 0) => acct.checked
  /\ (acct.checked /\ acct.gate_len > MAX_INPUT_TOKEN_LENGTH) =>
       /\ acct.chunks = 0
       /\ acct.engine_generate = 0
       /\ acct.length_errors = 1

\* C2 (as claimed): a request with max_new_tokens above the ceiling fails with
\* the validation error before any chunk and before the engine is touched in
\* any way: no tokenize and no generate call has happened for it.
C2_EngineUntouched ==
  (acct.started /\ req.max_new_tokens > MAX_MAX_NEW_TOKENS) =>
    /\ acct.error = "ValueError"
    /\ acct.chunks = 0
    /\ acct.transcripts = 0
    /\ acct.engine_generate = 0
    /\ acct.tokenize = 0

\* C2 (amended): a call of generate with max_new_tokens above the ceiling
\* raises the validation error before any chunk is produced and before the
\* engine's generation is invoked or a token decoded; the one engine access
\* the request can have made is the tokenizer call of the length check, which
\* the submit chains run before generate.
C2_NoGenerationWhenInvalid ==
  (acct.started /\ req.max_new_tokens > MAX_MAX_NEW_TOKENS) =>
    /\ acct.error = "ValueError"
    /\ acct.chunks = 0
    /\ acct.transcripts = 0
    /\ acct.engine_generate = 0
    /\ acct.decode_steps = 0
    /\ acct.pulls = 0
    /\ acct.tokenize = (IF acct.checked THEN 1 ELSE 0)

\* C2 witness: a submit chain passed the length check, which tokenized the
\* prompt, and generate then refused max_new_tokens above the ceiling
C2_Witness ==
  /\ acct.started
  /\ req.max_new_tokens > MAX_MAX_NEW_TOKENS
  /\ acct.checked
  /\ acct.tokenize = 1
  /\ acct.error = "ValueError"

\* C3 (as claimed): the adapter's generate always produces at least one
\* chunk: when its stream ended without an error, it has yielded a chunk.
C3_AdapterAtLeastOneChunk ==
  (acct.started /\ acct.error = "" /\ gen.pc = "end") => acct.chunks >= 1

\* C3 (amended): the streaming session's generate always yields at least one
\* transcript for an admitted request that is not abandoned and does not
\* fail: when the adapter's stream ends at once the adapter yields no chunk,
\* and generate yields exactly one transcript, whose newest turn has the
\* empty string for an answer.
C3_SessionAtLeastOneTranscript ==
  /\ (acct.started /\ acct.error = "" /\ ~acct.abandoned /\ step # "first") =>
       acct.transcripts >= 1
  /\ (step = "stream" /\ acct.chunks = 0) =>
       /\ acct.transcripts = 1
       /\ gen.pc = "end"
       /\ chatbot = Append(req.history, <<req.message, <<>>>>)

\* C3 witness: the adapter's stream ended without a chunk and the transcript
\* shows the empty answer
C3_Witness ==
  /\ step = "stream"
  /\ gen.pc = "end"
  /\ acct.chunks = 0
  /\ acct.transcripts = 1
  /\ chatbot # <<>>
  /\ chatbot[Len(chatbot)][2] = <<>>

\* C4: on the local backend, when the accumulated answer contains "Human:"
\* the chunk yielded is the text before the marker's first occurrence, it is
\* the request's last chunk, and no chunk ever contains the marker.
C4_ChunkBeforeMarker ==
  (llama_cpp /\ acct.chunks > 0) =>
    /\ ~Contains(acct.last_chunk, HUMAN_MARKER)
    /\ acct.truncated <=> Contains(acct.pre, HUMAN_MARKER)
    /\ acct.truncated =>
         LET n == Len(acct.last_chunk)
         IN /\ Len(acct.pre) >= n + Len(HUMAN_MARKER)
            /\ SubSeq(acct.pre, 1, n) = acct.last_chunk
            /\ SubSeq(acct.pre, n + 1, n + Len(HUMAN_MARKER)) = HUMAN_MARKER
            /\ gen.pc \in {"brk", "end"}
    /\ step = "stream" => chatbot[Len(chatbot)][2] = acct.last_chunk

C4_TruncationIsLast ==
  (llama_cpp /\ acct.truncated) => acct'.chunks <= acct.chunks

C4_HumanMarkerTruncation == []C4_ChunkBeforeMarker /\ [][C4_TruncationIsLast]_vars

\* C4 witness: "aHum" then "an:" accumulated to "aHuman:" and "a" was yielded
C4_Witness ==
  /\ llama_cpp
  /\ acct.truncated
  /\ acct.pre = <<"a">> \o HUMAN_MARKER
  /\ acct.last_chunk = <<"a">>
  /\ step = "stream"

\* C5: the chunks of a request never get shorter from one to the next, but
\* for the chunk of the truncation step, which is no longer than the answer
\* accumulated before the truncation.
C5_Step ==
  /\ (acct.chunks >= 1 /\ acct'.chunks = acct.chunks + 1) =>
       \/ Len(acct'.last_chunk) >= Len(acct.last_chunk)
       \/ acct'.truncated
  /\ acct'.truncated => Len(acct'.last_chunk) <= Len(acct'.pre)

C6_Rejection ==
  (acct.error # "gr.Error" /\ acct'.error = "gr.Error") => chatbot' = before'

C6_HistoryUntouched == [][C6_Rejection]_vars

\* C7 (as claimed): at most one request is generating on the engine at any
\* time: the local backend's request being streamed and the background
\* model.generate calls still running are at most one in all.
Generating ==
  threads \cup (IF llama_cpp /\ step = "stream" /\ gen.pc # "end"
                THEN {n_requests} ELSE {})

C7_OneInFlight == Cardinality(Generating) <= 1

\* C8 (as claimed): a token whose detokenization fails is skipped and adds
\* nothing to this or any later chunk: every chunk is the text of the tokens
\* that decode, each by itself.
RECURSIVE SkipDecode(_)
SkipDecode(toks) ==
  IF toks = <<>> THEN <<>>
  ELSE LET text == Utf8Decode(TokenBytes(Head(toks)))
       IN (IF text = DecodeError THEN <<>> ELSE text) \o SkipDecode(Tail(toks))

C8_FailedTokenSkipped ==
  (llama_cpp /\ acct.chunks > 0) =>
    /\ acct.error = ""
    /\ acct.pre = SkipDecode(tokens)

\* C8 (amended): a token whose detokenization fails adds no text at that
\* step: the failure is swallowed, the stream is not aborted and a chunk, the
\* answer so far, is still yielded for the token. The token is not dropped:
\* it stays in new_tokens and is decoded together with the tokens that
\* follow, so the answer is always the text of all the tokens before the ones
\* still held.
TextTokens == SelectSeq(tokens, LAMBDA t : t # EOS_LITERAL)

C8_FailedTokenHeld ==
  (llama_cpp /\ acct.chunks > 0) =>
    LET k == Len(TextTokens) - Len(gen.new_tokens)
    IN /\ acct.error = ""
       /\ acct.chunks = Len(tokens)
       /\ k >= 0
       /\ gen.new_tokens = SubSeq(TextTokens, k + 1, Len(TextTokens))
       /\ gen.new_tokens # <<>> => Utf8Decode(detokenize(gen.new_tokens)) = DecodeError
       /\ acct.pre = Utf8Decode(detokenize(SubSeq(TextTokens, 1, k)))

\* C8 witness: "E4" failed to decode and yielded the empty answer; with
\* "B8AD" after it the two decoded to one character
C8_Witness ==
  /\ llama_cpp
  /\ tokens = <<"E4", "B8AD">>
  /\ acct.chunks = 2
  /\ acct.last_chunk = <<WIDE>>

\* C9 (as claimed): undo or retry on an empty transcript is a no-op: the
\* transcript stays empty, the recovered message is empty and no generation
\* is started.
C9_EmptyPopIsNoOp ==
  (chain \in {"retry", "undo"} /\ before = <<>>) =>
    /\ chatbot = <<>>
    /\ saved_input = <<>>
    /\ ~acct.started
    /\ acct.engine_generate = 0

\* C10: on the local backend a pull of the chunk sequence runs at most one
\* decode step, and no decode step is run for a request the caller abandoned.
C10_Step ==
  (llama_cpp /\ acct'.decode_steps > acct.decode_steps) =>
    /\ acct'.decode_steps = acct.decode_steps + 1
    /\ acct'.pulls = acct.pulls + 1
    /\ ~acct.abandoned

C10_OneDecodeStepPerPull == [][C10_Step]_vars

\* C10 witness: the caller abandoned a stream whose engine had more to give
C10_Witness ==
  /\ llama_cpp
  /\ acct.abandoned
  /\ acct.decode_steps >= 1
  /\ acct.decode_steps < MaxTokens
  /\ gen.pc = "loop"

\* C11 (as claimed): on the accelerated backend a wait for the next increment
\* that exceeds the timeout fails the request with a hard error: the request
\* is over, its generator yields no further chunk, and the background
\* generation of the failed request is no longer running on the engine.
C11_StallReleasesEngine ==
  (~llama_cpp /\ acct.error = "Empty") =>
    /\ chain = "none"
    /\ gen.pc = "end"
    /\ n_requests \notin threads

\* C12: for every message, history and system prompt the prompt built is the
\* system block, there exactly when the system prompt is not the empty
\* string and never cut, followed by the last PROMPT_TAIL characters of the
\* turns portion, which is the whole turns portion when it has no more.
TurnsPortion(message, chat_history) ==
  HistoryBlocks(chat_history) \o OpenBlock(message)

SystemBlock(p) ==
  IF p = <<>> THEN <<>> ELSE SYSTEM_OPEN \o Strip(p) \o TURN_CLOSE

C12_TailTruncation ==
  (chain = "core" /\ step # "args") =>
    LET T == TurnsPortion(saved_input, chatbot)
        S == SystemBlock(system_prompt)
        P == acct.engine_prompt
        k == IF Len(T) > PROMPT_TAIL THEN PROMPT_TAIL ELSE Len(T)
    IN /\ Len(P) = Len(S) + k
       /\ SubSeq(P, 1, Len(S)) = S
       /\ SubSeq(P, Len(S) + 1, Len(P)) = SubSeq(T, Len(T) - k + 1, Len(T))
       /\ (Len(T) <= PROMPT_TAIL => SubSeq(P, Len(S) + 1, Len(P)) = T)

\* C12 witness: a prompt built with a system block from a turns portion longer
\* than PROMPT_TAIL
C12_Witness ==
  /\ chain = "core" /\ step = "prompt"
  /\ system_prompt = BeNice
  /\ Len(TurnsPortion(saved_input, chatbot)) > PROMPT_TAIL
  /\ Len(acct.engine_prompt) = PROMPT_TAIL + Len(SystemBlock(BeNice))

\* C13: the turns portion of the prompt is one closed block per history turn,
\* oldest first, followed by one open block for the new message, as far as
\* the cut to PROMPT_TAIL characters leaves them; and the prompt always ends
\* with the assistant turn's opening marker left unterminated, whether the
\* history is empty, the message is empty or the turns portion was cut.
ASSISTANT_OPEN ==
  <<"<", "s", ">", "A", "s", "s", "i", "s", "t", "a", "n", "t", ":", " ">>

\* the characters of the blocks of turns i.. of h
RECURSIVE BlocksLen(_, _)
BlocksLen(h, i) ==
  IF i > Len(h) THEN 0 ELSE Len(TurnBlock(h[i])) + BlocksLen(h, i + 1)

\* the last v characters of block b end e characters before the end of q,
\* v being what q has room for
EndsAt(q, b, e) ==
  LET room == IF Len(q) > e THEN Len(q) - e ELSE 0
      v == IF Len(b) < room THEN Len(b) ELSE room
  IN SubSeq(q, Len(q) - e - v + 1, Len(q) - e) = SubSeq(b, Len(b) - v + 1, Len(b))

C13_BlocksThenCursor ==
  (chain = "core" /\ step # "args") =>
    LET P == acct.engine_prompt
        S == SystemBlock(system_prompt)
        Q == SubSeq(P, Len(S) + 1, Len(P))
        open == OpenBlock(saved_input)
        total == BlocksLen(chatbot, 1) + Len(open)
    IN /\ Len(Q) = IF total > PROMPT_TAIL THEN PROMPT_TAIL ELSE total
       /\ EndsAt(Q, open, 0)
       /\ \A i \in 1..Len(chatbot) :
            EndsAt(Q, TurnBlock(chatbot[i]), Len(open) + BlocksLen(chatbot, i + 1))
       /\ Len(P) >= Len(ASSISTANT_OPEN)
       /\ SubSeq(P, Len(P) - Len(ASSISTANT_OPEN) + 1, Len(P)) = ASSISTANT_OPEN

\* C13 witness: a prompt built for an empty message from two different turns
\* whose blocks exceed PROMPT_TAIL characters
C13_Witness ==
  /\ chain = "core" /\ step = "prompt"
  /\ saved_input = <<>>
  /\ Len(chatbot) = 2
  /\ chatbot[1] # chatbot[2]
  /\ BlocksLen(chatbot, 1) > PROMPT_TAIL
  /\ Len(acct.engine_prompt) > PROMPT_TAIL

\* C14 (as claimed): a request whose generation configuration is invalid, here
\* a max_new_tokens that is not a positive integer, is rejected once with the
\* validation error before the engine produces any token. Stated for the
\* backend the app configures (LLAMA_CPP = True, app line 43).
C14_InvalidConfigRejected ==
  (llama_cpp /\ acct.started /\ req.max_new_tokens < 1) =>
    /\ acct.error = "ValueError"
    /\ acct.engine_generate = 0
    /\ acct.decode_steps = 0
    /\ acct.chunks = 0

\* C15: on the local backend every token pulled from the engine gives exactly
\* one chunk and no chunk is given without a token; after each token the
\* termination conditions are tried in the order end-of-sequence literal,
\* human-turn marker in the accumulated answer, the engine's end-of-stream
\* token id: the token that meets one makes its chunk the last, the marker
\* taking precedence over the end-of-stream id with the chunk cut before the
\* marker, and once a chunk was the last the next pull takes no token.
C15_Step ==
  (llama_cpp /\ acct'.pulls > acct.pulls) =>
    /\ (acct'.chunks > acct.chunks) <=> (acct'.decode_steps > acct.decode_steps)
    /\ acct'.chunks <= acct.chunks + 1
    /\ gen.pc = "brk" => (acct'.decode_steps = acct.decode_steps /\ gen'.pc = "end")
    /\ (acct'.decode_steps > acct.decode_steps) =>
         LET t == tokens'[Len(tokens')]
         IN IF t = EOS_LITERAL
            THEN /\ gen'.pc = "brk"
                 /\ acct'.last_chunk = gen.answer_message
                 /\ ~acct'.truncated
            ELSE IF Contains(acct'.pre, HUMAN_MARKER)
            THEN /\ gen'.pc = "brk"
                 /\ acct'.truncated
                 /\ acct'.last_chunk \o HUMAN_MARKER =
                      SubSeq(acct'.pre, 1, Len(acct'.last_chunk) + Len(HUMAN_MARKER))
                 /\ ~Contains(acct'.last_chunk, HUMAN_MARKER)
            ELSE IF t = token_eos
            THEN /\ gen'.pc = "brk"
                 /\ acct'.last_chunk = acct'.pre
                 /\ ~acct'.truncated
            ELSE /\ gen'.pc = "loop"
                 /\ acct'.last_chunk = acct'.pre

C15_OneChunkPerToken == llama_cpp => acct.chunks = acct.decode_steps

C16_Step ==
  /\ (acct'.chunks > acct.chunks) =>
       /\ acct'.chunks = acct.chunks + 1
       /\ acct'.transcripts = acct.transcripts + 1
  /\ (acct'.transcripts > acct.transcripts) =>
       /\ acct'.transcripts = acct.transcripts + 1
       /\ (acct'.chunks = acct.chunks) => (acct.transcripts = 0 /\ gen'.pc = "end")
       /\ Len(chatbot') = Len(chatbot)
       /\ \A i \in 1..(Len(chatbot) - 1) : chatbot'[i] = chatbot[i]
       /\ chatbot'[Len(chatbot')] =
            <<saved_input,
              IF acct'.chunks > acct.chunks THEN acct'.last_chunk ELSE <<>> >>

C16_Count ==
  /\ acct.transcripts > 0 =>
       /\ acct.transcripts = (IF acct.chunks = 0 THEN 1 ELSE acct.chunks)
       /\ Len(chatbot) = Len(req.history) + 1
       /\ SubSeq(chatbot, 1, Len(req.history)) = req.history
  /\ (acct.pulls > 0 /\ acct.error = "") => acct.transcripts > 0

C17_GateMeasuresEnginePrompt ==
  (llama_cpp /\ acct.checked /\ acct.engine_generate > 0) =>
    acct.gate_prompt = acct.engine_prompt

\* C18 (as claimed): a request with a valid max_new_tokens = N takes at most
\* N tokens from the engine and gives at most N chunks. Stated for the
\* backend the app configures (LLAMA_CPP = True, app line 43).
C18_TokenBudget ==
  (llama_cpp /\ acct.started /\ req.max_new_tokens >= 1
     /\ req.max_new_tokens <= MAX_MAX_NEW_TOKENS) =>
    /\ acct.decode_steps <= req.max_new_tokens
    /\ acct.chunks <= req.max_new_tokens

\* C19: the length check and generate only read the transcript list passed to
\* them: the length check leaves it as it was, and the list passed to
\* generate is, element for element, what was passed, when generate raises
\* the validation error, after every transcript it yields and when the
\* stream ends, stalls or is abandoned.
C19_Step ==
  /\ step = "check" => chatbot' = chatbot
  /\ (step = "generate" /\ acct'.started) => req'.history_with_input = chatbot
  /\ step \in {"first", "stream"} =>
       req'.history_with_input = req.history_with_input

C19_HistoryOnlyRead == [][C19_Step]_vars

\* C19 witness: two transcripts were yielded and the list passed to generate
\* still ends with the placeholder
C19_Witness ==
  /\ acct.transcripts = 2
  /\ chatbot # req.history_with_input
  /\ req.history_with_input = <<<<Hi, <<>>>>>>
  /\ acct.checked

====
